---------------------------- MODULE Spec2Model ----------------------------
(***************************************************************************)
(* Raffle wheel (src/raffle_streamlit_app.py, the script embedded by       *)
(* render_wheel) and the raffle entry builders (build_entries in           *)
(* src/raffle_streamlit_app.py, build_raffle_entries in                    *)
(* src/build_raffle_list.py).                                              *)
(*                                                                         *)
(* Angles are counted in TURN units per full turn (2*Math.PI == TURN), the *)
(* progress of a spin in Res units per 1.0, times in milliseconds.  JS     *)
(* arrays are 0-based: labels[i] is written labels[i + 1] here.            *)
(***************************************************************************)
EXTENDS Integers, Sequences, FiniteSets, TLC

VARIABLES
    INIT,          \* const INIT = __INIT_JSON__ (never assigned afterwards)
    labels,        \* let labels
    fulls,         \* let fulls
    rotation,      \* let rotation
    spinning,      \* let spinning
    lastIdx,       \* let lastIdx (null is written null == -1)
    elimsDisabled, \* rm1.disabled and rmAll.disabled (always set together)
    winnerText,    \* textContent of the #winner element
    winnersLog,    \* localStorage["raffle_winners_v1"], the rec.full of each record
    rafQueue,      \* callbacks handed to requestAnimationFrame, not yet run
    frames,        \* how many animation frames the current/last spin has run
    lastOp,        \* the handler that ran last
    ret,           \* what that handler returned
    df,            \* the spreadsheet handed to the entry builders
    outApp,        \* build_entries' out_df["Entry"] and info
    outCli,        \* build_raffle_entries' out_df["Entry"] and exit code
    pc             \* the builders that have run: a subset of {"app", "cli"}

wheelVars == <<INIT, labels, fulls, rotation, spinning, lastIdx, elimsDisabled,
               winnerText, winnersLog, rafQueue, frames, lastOp, ret>>
buildVars == <<df, outApp, outCli, pc>>
vars == <<INIT, labels, fulls, rotation, spinning, lastIdx, elimsDisabled,
          winnerText, winnersLog, rafQueue, frames, lastOp, ret,
          df, outApp, outCli, pc>>

-----------------------------------------------------------------------------
(* Bounds of the model *)

\* angular resolution: units per full turn
TURN == 4
\* resolution of the spin progress p (units per 1.0)
Res == 4
\* most entries the page is constructed with
MaxEntries == 3
\* records localStorage holds before setItem throws (quota)
MaxLog == 1
\* shortest gap between two animation frames, in ms
FrameStepMs == 1250
\* most rows of the input spreadsheet
MaxRows == 2

(* Program constants *)

\* "durationMs": 5000
durationMs == 5000
\* "maxSpins": 6
maxSpins == 6
\* Math.max(400, ...)
MinDurMs == 400
\* Math.min(10000, ...)
MaxDurMs == 10000
\* let lastIdx = null
null == -1

Min(a, b) == IF a < b THEN a ELSE b
Max(a, b) == IF a > b THEN a ELSE b

-----------------------------------------------------------------------------
(* The page's construction: INIT *)

\* three participants; the first two share the display name
Participants ==
    << [label |-> "Ann", full |-> "Ann - a@x - 1"],
       [label |-> "Ann", full |-> "Ann - b@x - 2"],
       [label |-> "Bob", full |-> "Bob - c@x - 3"] >>

Copies(e, k) == [i \in 1..k |-> e]

\* the entry lists the page is rendered with: each participant repeated by its
\* ticket count, in row order; render_wheel is only called for a non-empty list
InitEntries ==
    { Copies(Participants[1], t[1]) \o Copies(Participants[2], t[2])
         \o Copies(Participants[3], t[3]) :
      t \in { u \in [1..3 -> 0..MaxEntries] :
                 u[1] + u[2] + u[3] \in 1..MaxEntries } }

\* init = {"labels": ..., "fulls": ..., "durationMs": 5000, "minSpins": 6, "maxSpins": 6}
InitJson(es) ==
    [ labels     |-> [i \in 1..Len(es) |-> es[i].label],
      fulls      |-> [i \in 1..Len(es) |-> es[i].full],
      durationMs |-> durationMs,
      maxSpins   |-> maxSpins ]

-----------------------------------------------------------------------------
(* Helpers of the script *)

\* function mod(a,n){return ((a%n)+n)%n}
mod(a, n) == a % n

\* function easeOutCubic(t){return 1-Math.pow(1-t,3)}, in 1/Res^3 units for t in
\* 1/Res units
easeOutCubic(p) == Res * Res * Res - (Res - p) * (Res - p) * (Res - p)

\* the progress with Math.min(1, ...) left out
Progress_NoClamp(t, t0, dur) == ((t - t0) * Res) \div dur

\* const p = Math.min(1,(t-t0)/dur), in 1/Res units (rounded down, so that
\* p < Res exactly when (t-t0)/dur < 1)
Progress(t, t0, dur) == Min(Res, ((t - t0) * Res) \div dur)

\* rotation = mod(start + total*k, 2*Math.PI)
FrameRotation(start, total, p) ==
    mod(start + (total * easeOutCubic(p)) \div (Res * Res * Res), TURN)

\* winnerIndex with the pointer angle taken as rot instead of 0 - rot
winnerIndex_WrongSign(rot, ls) ==
    LET n == Max(1, Len(ls))
        p == mod(rot, TURN)
    IN  Min(n - 1, (p * n) \div TURN)

\* function winnerIndex(rot): n = Math.max(1, labels.length), slice = 2*Math.PI/n,
\* p = mod(0 - rot, 2*Math.PI), Math.min(n-1, Math.floor(p / slice))
winnerIndex(rot, ls) ==
    LET n == Max(1, Len(ls))
        p == mod(0 - rot, TURN)
    IN  Min(n - 1, (p * n) \div TURN)

\* const dur = Math.max(400, Math.min(10000, INIT.durationMs||5000))
Dur(init) ==
    Max(MinDurMs, Min(MaxDurMs, IF init.durationMs = 0 THEN 5000 ELSE init.durationMs))

\* const total = (INIT.maxSpins||6)*2*Math.PI + Math.random()*2*Math.PI,
\* r being Math.random()*2*Math.PI in [0, 2*Math.PI)
Total(init, r) == (IF init.maxSpins = 0 THEN 6 ELSE init.maxSpins) * TURN + r

\* a splice that removes the entry after the one asked for
Splice1_OffByOne(s, i) ==
    [j \in 1..(IF i + 1 < Len(s) THEN Len(s) - 1 ELSE Len(s)) |->
        IF j <= i + 1 THEN s[j] ELSE s[j + 1]]

\* arr.splice(i, 1) for a 0-based i >= 0
Splice1(s, i) ==
    [j \in 1..(IF i < Len(s) THEN Len(s) - 1 ELSE Len(s)) |->
        IF j <= i THEN s[j] ELSE s[j + 1]]

\* the loop of rmAll.onclick dropping only the first entry that matches
RECURSIVE KeptFrom_FirstOnly(_, _, _)
KeptFrom_FirstOnly(ls, n, i) ==
    IF i > Len(ls) THEN <<>>
    ELSE IF ls[i] # n THEN <<i>> \o KeptFrom_FirstOnly(ls, n, i + 1)
    ELSE [j \in 1..(Len(ls) - i) |-> i + j]

\* the for loop of rmAll.onclick: the 1-based indices it keeps, in order
RECURSIVE KeptFrom(_, _, _)
KeptFrom(ls, n, i) ==
    IF i > Len(ls) THEN <<>>
    ELSE (IF ls[i] # n THEN <<i>> ELSE <<>>) \o KeptFrom(ls, n, i + 1)

\* fulls[lastIdx] || labels[lastIdx] || ""
At(s, i) == IF i >= 0 /\ i < Len(s) THEN s[i + 1] ELSE ""
FullOf(fs, ls, i) ==
    IF At(fs, i) # "" THEN At(fs, i) ELSE At(ls, i)

\* performance.now() at the click
StartTimes == {0, FrameStepMs \div 2}
\* how far the next animation frame's timestamp lies after the previous one:
\* a regular frame, or a delayed one
FrameDeltas == {FrameStepMs, 3 * FrameStepMs}

-----------------------------------------------------------------------------
(* The wheel's handlers *)

WheelInit ==
    /\ INIT \in { InitJson(es) : es \in InitEntries }
    /\ labels = INIT.labels
    /\ fulls = INIT.fulls
    /\ rotation = 0
    /\ spinning = FALSE
    /\ lastIdx = null
    /\ elimsDisabled = TRUE
    /\ winnerText = ""
    /\ winnersLog = <<>>
    /\ rafQueue = <<>>
    /\ frames = 0
    /\ lastOp = "load"
    /\ ret = "undefined"

\* if (spinning || labels.length < 2) return;
SpinRejected ==
    /\ spinning \/ Len(labels) < 2
    /\ lastOp' = "spinRejected"
    /\ ret' = "undefined"
    /\ UNCHANGED <<INIT, labels, fulls, rotation, spinning, lastIdx, elimsDisabled,
                   winnerText, winnersLog, rafQueue, frames>>
    /\ UNCHANGED buildVars

\* spin() with the test of `spinning` left out of its first line
SpinStart_NoBusyGuard(r, now) ==
    /\ ~(Len(labels) < 2)
    /\ spinning' = TRUE
    /\ elimsDisabled' = TRUE
    /\ winnerText' = ""
    /\ rafQueue' = Append(rafQueue,
           [start |-> rotation, total |-> Total(INIT, r), t0 |-> now,
            dur |-> Dur(INIT), t |-> now])
    /\ frames' = 0
    /\ lastOp' = "spin"
    /\ ret' = "undefined"
    /\ UNCHANGED <<INIT, labels, fulls, rotation, lastIdx, winnersLog>>
    /\ UNCHANGED buildVars

\* spin() with the test of labels.length left out of its first line
SpinStart_NoLengthGuard(r, now) ==
    /\ ~spinning
    /\ spinning' = TRUE
    /\ elimsDisabled' = TRUE
    /\ winnerText' = ""
    /\ rafQueue' = Append(rafQueue,
           [start |-> rotation, total |-> Total(INIT, r), t0 |-> now,
            dur |-> Dur(INIT), t |-> now])
    /\ frames' = 0
    /\ lastOp' = "spin"
    /\ ret' = "undefined"
    /\ UNCHANGED <<INIT, labels, fulls, rotation, lastIdx, winnersLog>>
    /\ UNCHANGED buildVars

\* the rest of spin(): r is Math.random()*2*Math.PI, now is performance.now()
SpinStart(r, now) ==
    /\ ~(spinning \/ Len(labels) < 2)
    /\ spinning' = TRUE
    /\ elimsDisabled' = TRUE
    /\ winnerText' = ""
    /\ rafQueue' = Append(rafQueue,
           [start |-> rotation, total |-> Total(INIT, r), t0 |-> now,
            dur |-> Dur(INIT), t |-> now])
    /\ frames' = 0
    /\ lastOp' = "spin"
    /\ ret' = "undefined"
    /\ UNCHANGED <<INIT, labels, fulls, rotation, lastIdx, winnersLog>>
    /\ UNCHANGED buildVars

\* spinBtn.onclick = spin
Spin ==
    \/ SpinRejected
    \/ \E r \in 0..(TURN - 1), now \in StartTimes : SpinStart(r, now)

\* frame(t) with p < 1 that draws but does not ask for the next frame
FrameStep_NoRequest(f, t, p) ==
    /\ p < Res
    /\ rotation' = FrameRotation(f.start, f.total, p)
    /\ rafQueue' = Tail(rafQueue)
    /\ frames' = frames + 1
    /\ lastOp' = "frame"
    /\ UNCHANGED <<INIT, labels, fulls, spinning, lastIdx, elimsDisabled,
                   winnerText, winnersLog, ret>>

\* frame(t) with p < 1: draw and requestAnimationFrame(frame)
FrameStep(f, t, p) ==
    /\ p < Res
    /\ rotation' = FrameRotation(f.start, f.total, p)
    /\ rafQueue' = Append(Tail(rafQueue), [f EXCEPT !.t = t])
    /\ frames' = frames + 1
    /\ lastOp' = "frame"
    /\ UNCHANGED <<INIT, labels, fulls, spinning, lastIdx, elimsDisabled,
                   winnerText, winnersLog, ret>>

\* frame(t) with p >= 1: the winner is resolved, shown and logged
FrameDone(f, t, p) ==
    /\ ~(p < Res)
    /\ rotation' = FrameRotation(f.start, f.total, p)
    /\ lastIdx' = winnerIndex(rotation', labels)
    /\ winnerText' = FullOf(fulls, labels, lastIdx')
    /\ winnersLog' = IF Len(winnersLog) < MaxLog
                       THEN Append(winnersLog, FullOf(fulls, labels, lastIdx'))
                       ELSE winnersLog
    /\ elimsDisabled' = FALSE
    /\ spinning' = FALSE
    /\ rafQueue' = Tail(rafQueue)
    /\ frames' = frames + 1
    /\ lastOp' = "done"
    /\ UNCHANGED <<INIT, labels, fulls, ret>>

\* the browser runs the callback at the head of the requestAnimationFrame queue
\* with timestamp t
Frame ==
    /\ rafQueue # <<>>
    /\ UNCHANGED buildVars
    /\ \E d \in FrameDeltas :
          LET f == Head(rafQueue)
              t == f.t + d
              p == Progress(t, f.t0, f.dur)
          IN  FrameStep(f, t, p) \/ FrameDone(f, t, p)

\* resetBtn.onclick with rotation=0 left out
Reset_KeepsRotation ==
    /\ labels' = INIT.labels
    /\ fulls' = INIT.fulls
    /\ lastIdx' = null
    /\ elimsDisabled' = TRUE
    /\ winnerText' = ""
    /\ lastOp' = "reset"
    /\ ret' = "undefined"
    /\ UNCHANGED <<INIT, rotation, spinning, winnersLog, rafQueue, frames>>
    /\ UNCHANGED buildVars

\* resetBtn.onclick
Reset ==
    /\ labels' = INIT.labels
    /\ fulls' = INIT.fulls
    /\ rotation' = 0
    /\ lastIdx' = null
    /\ elimsDisabled' = TRUE
    /\ winnerText' = ""
    /\ lastOp' = "reset"
    /\ ret' = "undefined"
    /\ UNCHANGED <<INIT, spinning, winnersLog, rafQueue, frames>>
    /\ UNCHANGED buildVars

\* rm1.onclick with setElims(true) left out
Rm1_LeavesEnabled ==
    /\ ~elimsDisabled
    /\ IF lastIdx = null
         THEN UNCHANGED <<labels, fulls, lastIdx>>
         ELSE /\ labels' = Splice1(labels, lastIdx)
              /\ fulls' = Splice1(fulls, lastIdx)
              /\ lastIdx' = null
    /\ lastOp' = "rm1"
    /\ ret' = "undefined"
    /\ UNCHANGED <<INIT, rotation, spinning, winnerText, winnersLog, rafQueue, frames,
                   elimsDisabled>>
    /\ UNCHANGED buildVars

\* rm1.onclick; a disabled button delivers no click
Rm1 ==
    /\ ~elimsDisabled
    /\ IF lastIdx = null
         THEN UNCHANGED <<labels, fulls, lastIdx, elimsDisabled>>
         ELSE /\ labels' = Splice1(labels, lastIdx)
              /\ fulls' = Splice1(fulls, lastIdx)
              /\ lastIdx' = null
              /\ elimsDisabled' = TRUE
    /\ lastOp' = "rm1"
    /\ ret' = "undefined"
    /\ UNCHANGED <<INIT, rotation, spinning, winnerText, winnersLog, rafQueue, frames>>
    /\ UNCHANGED buildVars

\* rmAll.onclick; a disabled button delivers no click
RmAll ==
    /\ ~elimsDisabled
    /\ IF lastIdx = null
         THEN UNCHANGED <<labels, fulls, lastIdx, elimsDisabled>>
         ELSE LET n == At(labels, lastIdx)
                  keep == KeptFrom(labels, n, 1)
              IN  /\ labels' = [j \in 1..Len(keep) |-> labels[keep[j]]]
                  /\ fulls' = [j \in 1..Len(keep) |-> At(fulls, keep[j] - 1)]
                  /\ lastIdx' = null
                  /\ elimsDisabled' = TRUE
    /\ lastOp' = "rmAll"
    /\ ret' = "undefined"
    /\ UNCHANGED <<INIT, rotation, spinning, winnerText, winnersLog, rafQueue, frames>>
    /\ UNCHANGED buildVars

\* a click on rm1 or rmAll while they are disabled (the state the page starts
\* in and setElims(true) leaves): the browser dispatches no click event, so
\* neither handler runs
ElimClickDropped ==
    /\ elimsDisabled
    /\ lastOp' = "elimDropped"
    /\ UNCHANGED <<INIT, labels, fulls, rotation, spinning, lastIdx, elimsDisabled,
                   winnerText, winnersLog, rafQueue, frames, ret>>
    /\ UNCHANGED buildVars

-----------------------------------------------------------------------------
(* The entry builders.  A string is a sequence of tokens, a token being one  *)
(* whitespace " " or a run of other characters; a spreadsheet is read with   *)
(* dtype=str, so a cell is a string or NaN (an empty cell).                  *)

NaN == <<"NaN">>

\* REQUIRED_COLUMNS (its keys)
REQUIRED_COLUMNS ==
    { <<"ID1">>, <<"Full Name">>, <<"Email1">>, <<"Phone Number">>,
      <<"Tickets Purchased">> }

\* str.strip()
RECURSIVE lstrip(_)
lstrip(s) == IF s # <<>> /\ Head(s) = " " THEN lstrip(Tail(s)) ELSE s
RECURSIVE rstrip(_)
rstrip(s) ==
    IF s # <<>> /\ s[Len(s)] = " " THEN rstrip(SubSeq(s, 1, Len(s) - 1)) ELSE s
strip(s) == rstrip(lstrip(s))

\* pd.isna(x)
isna(x) == x = NaN

\* def clean_cell(x)
clean_cell(x) == IF isna(x) THEN <<>> ELSE strip(x)

\* Series.astype(str): NaN becomes the string "nan"
astype_str(x) == IF isna(x) THEN <<"nan">> ELSE x

\* the digits of an integer literal
IsDigit(c) == c \in {"0", "1", "2", "3"}
DigitVal(c) == CASE c = "0" -> 0 [] c = "1" -> 1 [] c = "2" -> 2 [] c = "3" -> 3
RECURSIVE DigitsVal(_, _)
DigitsVal(s, acc) ==
    IF s = <<>> THEN acc ELSE DigitsVal(Tail(s), 10 * acc + DigitVal(Head(s)))
AllDigits(s) == s # <<>> /\ \A i \in 1..Len(s) : IsDigit(s[i])

\* pd.to_numeric(x, errors="coerce") of one cell: the number a literal denotes,
\* NaN for an empty cell or for text that is no number
to_numeric(x) ==
    IF isna(x) THEN [nan |-> TRUE, v |-> 0]
    ELSE IF AllDigits(x) THEN [nan |-> FALSE, v |-> DigitsVal(x, 0)]
    ELSE IF Head(x) = "-" /\ AllDigits(Tail(x))
           THEN [nan |-> FALSE, v |-> 0 - DigitsVal(Tail(x), 0)]
    ELSE [nan |-> TRUE, v |-> 0]

\* .fillna(0).astype(int)
fillna0_int(n) == IF n.nan THEN 0 ELSE n.v

\* .clip(lower=0)
clip_lower0(k) == IF k < 0 THEN 0 ELSE k

\* pd.to_numeric(col, errors="coerce").fillna(0).astype(int).clip(lower=0)
TicketsOf(cell) == clip_lower0(fillna0_int(to_numeric(cell)))

\* f"{clean_cell(r['Full Name'])}{separator}{clean_cell(r['Email1'])}{separator}..."
Combined(r, separator) ==
    clean_cell(r.FullName) \o separator \o clean_cell(r.Email1) \o separator
       \o clean_cell(r.Phone)

\* Series.repeat(counts): element i repeated counts[i] times, in order
RECURSIVE repeat(_, _)
repeat(xs, counts) ==
    IF xs = <<>> THEN <<>>
    ELSE Copies(Head(xs), Head(counts)) \o repeat(Tail(xs), Tail(counts))

\* the ID filter comparing the cells as they are, not stripped
FilterById_NoStrip(rows, id) ==
    LET keep(r) == astype_str(r.ID1) = id
    IN  SelectSeq(rows, keep)

\* df[id_series == id] with id_series = df["ID1"].astype(str).str.strip()
FilterById(rows, id) ==
    LET keep(r) == strip(astype_str(r.ID1)) = id
    IN  SelectSeq(rows, keep)

\* missing = [c for c in REQUIRED_COLUMNS if c not in df.columns], the headers
\* stripped first
Missing(d) ==
    { c \in REQUIRED_COLUMNS : \A i \in 1..Len(d.headers) : strip(d.headers[i]) # c }

\* int((tickets > 0).sum()) and int((tickets == 0).sum())
CountPositive(xs) == Cardinality({ i \in 1..Len(xs) : xs[i] > 0 })
CountZero(xs) == Cardinality({ i \in 1..Len(xs) : xs[i] = 0 })

\* def build_entries(df, id_value, separator)
build_entries(d, id_value, separator) ==
    LET filtered == FilterById(d.rows, strip(id_value))
        combined == [i \in 1..Len(filtered) |-> Combined(filtered[i], separator)]
        tickets  == [i \in 1..Len(filtered) |-> TicketsOf(filtered[i].Tickets)]
        repeated == repeat(combined, tickets)
    IN  IF Missing(d) # {}
          THEN [Entry |-> <<>>,
                info |-> [ok |-> FALSE, kept_rows |-> 0, total_rows |-> 0,
                          generated_entries |-> 0, nonzero_ticket_rows |-> 0,
                          zero_ticket_rows |-> 0]]
        ELSE IF filtered = <<>>
          THEN [Entry |-> <<>>,
                info |-> [ok |-> TRUE, kept_rows |-> 0, total_rows |-> Len(d.rows),
                          generated_entries |-> 0, nonzero_ticket_rows |-> 0,
                          zero_ticket_rows |-> 0]]
        ELSE [Entry |-> repeated,
              info |-> [ok |-> TRUE, kept_rows |-> Len(filtered),
                        total_rows |-> Len(d.rows),
                        generated_entries |-> Len(repeated),
                        nonzero_ticket_rows |-> CountPositive(tickets),
                        zero_ticket_rows |-> CountZero(tickets)]]

\* def build_raffle_entries(input_path, output_path, sheet_name, no_header): the
\* Entry column it writes (none when it writes no file) and its return code
build_raffle_entries(d) ==
    LET filtered == FilterById(d.rows, <<"6610">>)
        combined == [i \in 1..Len(filtered) |->
                        Combined(filtered[i], <<" ", "-", " ">>)]
        tickets  == [i \in 1..Len(filtered) |-> TicketsOf(filtered[i].Tickets)]
    IN  IF Missing(d) # {} THEN [written |-> FALSE, Entry |-> <<>>, code |-> 2]
        ELSE IF filtered = <<>> THEN [written |-> TRUE, Entry |-> <<>>, code |-> 0]
        ELSE [written |-> TRUE, Entry |-> repeat(combined, tickets), code |-> 0]

(* The spreadsheets the builders are run on *)

Headers ==
    { << <<"ID1">>, <<"Full Name">>, <<"Email1">>, <<"Phone Number">>,
         <<"Tickets Purchased">> >>,
      << <<" ", "ID1", " ">>, <<"Full Name">>, <<"Email1">>, <<"Phone Number">>,
         <<"Tickets Purchased", " ">> >>,
      << <<"ID1">>, <<"Full Name">>, <<"Email1">>, <<"Phone Number">> >> }

Rows ==
    [ ID1      : { <<"6610">>, <<" ", "6610", " ">>, <<"6611">> },
      FullName : { <<" ", "Ann", " ">>, NaN },
      Email1   : { <<"a@x">> },
      Phone    : { <<"1">> },
      Tickets  : { NaN, <<"x">>, <<"-", "1">>, <<"0">>, <<"2">> } ]

RECURSIVE SeqsUpTo(_, _)
SeqsUpTo(S, n) ==
    IF n = 0 THEN { <<>> }
    ELSE LET shorter == SeqsUpTo(S, n - 1)
         IN  shorter \cup { Append(s, x) : s \in shorter, x \in S }

\* id_value of the "ID filter" text input (default "6610"); the separator input
\* is left at its default " - "
IdValues == { <<"6610">>, <<"6611", " ">> }

\* the page before a spreadsheet is uploaded: no wheel is rendered
NoWheel ==
    /\ INIT = InitJson(<<>>)
    /\ labels = <<>>
    /\ fulls = <<>>
    /\ rotation = 0
    /\ spinning = FALSE
    /\ lastIdx = null
    /\ elimsDisabled = TRUE
    /\ winnerText = ""
    /\ winnersLog = <<>>
    /\ rafQueue = <<>>
    /\ frames = 0
    /\ lastOp = "load"
    /\ ret = "undefined"

NoOutput == [Entry |-> <<>>]

BuildInit ==
    /\ NoWheel
    /\ df \in [ headers : Headers, rows : SeqsUpTo(Rows, MaxRows),
                id_value : IdValues ]
    /\ outApp = NoOutput
    /\ outCli = NoOutput
    /\ pc = {}

\* out_df, info = build_entries(df, id_value=id_value, separator=separator)
RunApp ==
    /\ "app" \notin pc
    /\ outApp' = build_entries(df, df.id_value, <<" ", "-", " ">>)
    /\ pc' = pc \cup {"app"}
    /\ UNCHANGED <<df, outCli>>
    /\ UNCHANGED wheelVars

\* code = build_raffle_entries(args.input, args.output, args.sheet, args.no_header)
RunCli ==
    /\ "cli" \notin pc
    /\ outCli' = build_raffle_entries(df)
    /\ pc' = pc \cup {"cli"}
    /\ UNCHANGED <<df, outApp>>
    /\ UNCHANGED wheelVars

BuildNext == RunApp \/ RunCli

BuildSpec == BuildInit /\ [][BuildNext]_vars

BuildIdle ==
    /\ df = [headers |-> <<>>, rows |-> <<>>, id_value |-> <<>>]
    /\ outApp = NoOutput
    /\ outCli = NoOutput
    /\ pc = {}

Init == WheelInit /\ BuildIdle

Next == Spin \/ Frame \/ Reset \/ Rm1 \/ RmAll \/ ElimClickDropped

Spec == Init /\ [][Next]_vars

\* pages on which every participant holds a ticket (eliminations lead from them
\* to the shorter lists)
FairInit ==
    /\ Init
    /\ \A i \in 1..Len(Participants) :
          \E j \in 1..Len(INIT.fulls) : INIT.fulls[j] = Participants[i].full

\* the browser keeps running the callbacks handed to requestAnimationFrame
FairSpec == FairInit /\ [][Next]_vars /\ WF_vars(Frame)

-----------------------------------------------------------------------------
(* Properties *)

\* the script's own variables and the page elements it writes
progVars == <<INIT, labels, fulls, rotation, spinning, lastIdx, elimsDisabled,
              winnerText, winnersLog, rafQueue>>

\* C1: a click on Spin while a spin is in progress changes nothing: no second
\* frame callback is queued, the queued callback keeps its start rotation, total
\* rotation and start time, the rotation and every other variable of the script
\* stay as they are; and at most one frame callback is ever pending.
C1_SpinWhileSpinningIsNoOp ==
    [][ /\ Len(rafQueue') <= 1
        /\ (spinning /\ Spin) => UNCHANGED progVars ]_vars

\* a spin in mid-animation has just been asked to spin again
C1_Witness ==
    /\ lastOp = "spinRejected"
    /\ spinning
    /\ Len(rafQueue) = 1
    /\ frames >= 1

\* C2: Reset during a spin aborts it: right after Reset the engine is Idle and
\* no frame callback of the aborted spin is left to change the rotation or to
\* report a winner.
C2_ResetAbortsSpin ==
    lastOp = "reset" => (~spinning /\ rafQueue = <<>>)

\* C3: the entry list (labels, fulls) never changes while a spin is in
\* progress: a step that changes it leaves the engine Idle.
C3_EntriesChangeOnlyWhenIdle ==
    [][ (labels' # labels \/ fulls' # fulls) => ~spinning' ]_vars

\* C4 as stated: a spin asked of a wheel with fewer than 2 entries is answered
\* with an explicit EmptyWheel error result.
C4_EmptyWheelErrorResult ==
    (lastOp = "spinRejected" /\ ~spinning /\ Len(labels) < 2) => ret = "EmptyWheel"

\* C4: a click on Spin while the wheel holds fewer than 2 entries is ignored
\* silently: no spin starts, the rotation, the entry list, the last winner and
\* everything else stay as they are, nothing is shown, and spin() returns
\* undefined (no error result).
C4_SpinOnSmallWheelIgnored ==
    [][ (Len(labels) < 2 /\ Spin) => (UNCHANGED progVars /\ ret' = "undefined") ]_vars

\* Spin has just been clicked on a wheel that eliminations left with one entry
C4_Witness ==
    /\ lastOp = "spinRejected"
    /\ ~spinning
    /\ Len(labels) = 1
    /\ Len(INIT.labels) >= 2
    /\ rafQueue = <<>>

\* C5: the rotation a spin ends on and the winner it reports depend only on
\* the spin's start rotation and total rotation (and the entry list at
\* completion), not on how many frames ran or at which times: the completing
\* frame leaves rotation = (start + total) wrapped to one turn.
C5_ResultIndependentOfFrameTimes ==
    [][ (rafQueue # <<>> /\ lastOp' = "done") =>
           LET f == Head(rafQueue)
               final == (f.start + f.total) % TURN
           IN  /\ rotation' = final
               /\ lastIdx' = winnerIndex(final, labels') ]_vars

\* a spin has completed on its second frame: one of the two came late
C5_Witness ==
    /\ lastOp = "done"
    /\ frames = 2
    /\ ~spinning

\* slice i of n is drawn from rot + i*slice to rot + (i+1)*slice (draw); the
\* pointer, fixed at angle 0, lies in it when some full turn k*TURN does
SliceUnderPointer(rot, n, i) ==
    \E k \in 0..2 :
       /\ n * rot + i * TURN <= k * n * TURN
       /\ k * n * TURN < n * rot + (i + 1) * TURN

\* C6: when a spin completes, lastIdx is the slice under the pointer at the
\* final rotation in the equal-slice partition of the current entry list, and
\* is a valid index 0..n-1 of that list, also on the 0/full-turn boundary.
C6_WinnerIsSliceUnderPointer ==
    lastOp = "done" =>
       /\ lastIdx \in 0..(Len(labels) - 1)
       /\ SliceUnderPointer(rotation, Len(labels), lastIdx)

\* a spin has completed with the pointer exactly on the 0/full-turn boundary
C6_Witness ==
    /\ lastOp = "done"
    /\ rotation = 0
    /\ Len(labels) >= 2
    /\ lastIdx = 0

Pairs(ls, fs) == [i \in 1..Len(ls) |-> <<ls[i], fs[i]>>]

\* C7: Eliminate All removes exactly the entries whose label is the last
\* winner's label: none with that label remains, the others keep their
\* relative order, and every label stays paired with its own full record.
C7_EliminateAllRemovesLabel ==
    [][ (RmAll /\ lastIdx # null) =>
           LET w == labels[lastIdx + 1]
               other(pr) == pr[1] # w
           IN  /\ Len(labels') = Len(fulls')
               /\ \A j \in 1..Len(labels') : labels'[j] # w
               /\ Pairs(labels', fulls') = SelectSeq(Pairs(labels, fulls), other) ]_vars

\* Eliminate All has removed both "Ann" entries, which have different full
\* records, and kept "Bob" with his own record
C7_Witness ==
    /\ lastOp = "rmAll"
    /\ INIT.fulls = <<"Ann - a@x - 1", "Ann - b@x - 2", "Bob - c@x - 3">>
    /\ labels = <<"Bob">>
    /\ fulls = <<"Bob - c@x - 3">>

\* C8: right after Reset the entry list is the one the page was constructed
\* with, the rotation is 0 and there is no current winner (lastIdx null, winner
\* line empty, eliminate buttons disabled).
C8_ResetRestoresOriginal ==
    lastOp = "reset" =>
       /\ labels = INIT.labels
       /\ fulls = INIT.fulls
       /\ rotation = 0
       /\ lastIdx = null
       /\ winnerText = ""
       /\ elimsDisabled

\* Reset has run on a three-entry page after a spin completed and was logged
C8_Witness ==
    /\ lastOp = "reset"
    /\ winnersLog # <<>>
    /\ ~spinning
    /\ Len(labels) = 3

\* what the claim reads in an ID cell and in the filter value, trimmed
TrimmedIs(cell, id) ==
    \/ id = "6610" /\ cell \in { <<"6610">>, <<" ", "6610", " ">> }
    \/ id = "6611" /\ cell \in { <<"6611">>, <<"6611", " ">> }
FilterValue(id_value) == IF TrimmedIs(id_value, "6610") THEN "6610" ELSE "6611"

\* what the claim reads in a Tickets Purchased cell: max(0, count), and 0 for a
\* missing or non-numeric one
ClaimedCopies(cell) ==
    CASE cell = NaN          -> 0
      [] cell = <<"x">>      -> 0
      [] cell = <<"-", "1">> -> Max(0, 0 - 1)
      [] cell = <<"0">>      -> Max(0, 0)
      [] cell = <<"2">>      -> Max(0, 2)

\* row by row: the row's composed entry, ClaimedCopies times, for a kept row
RECURSIVE ClaimedEntries(_, _)
ClaimedEntries(rows, id) ==
    IF rows = <<>> THEN <<>>
    ELSE (IF TrimmedIs(Head(rows).ID1, id)
            THEN Copies(Combined(Head(rows), <<" ", "-", " ">>),
                        ClaimedCopies(Head(rows).Tickets))
            ELSE <<>>) \o ClaimedEntries(Tail(rows), id)

RECURSIVE ClaimedCount(_, _)
ClaimedCount(rows, id) ==
    IF rows = <<>> THEN 0
    ELSE (IF TrimmedIs(Head(rows).ID1, id) THEN ClaimedCopies(Head(rows).Tickets)
          ELSE 0) + ClaimedCount(Tail(rows), id)

C10_SpinEventuallyCompletes ==
    spinning ~> (/\ lastOp = "done"
                 /\ ~spinning
                 /\ rafQueue = <<>>
                 /\ lastIdx # null
                 /\ Len(labels) >= 2)

\* a spin has completed after four regular frames and its winner is recorded
C10_Witness ==
    /\ lastOp = "done"
    /\ frames = 4
    /\ ~spinning
    /\ lastIdx # null
    /\ winnerText # ""

\* a list without its entry at 0-based index i
Without(s, i) == SubSeq(s, 1, i) \o SubSeq(s, i + 2, Len(s))

\* C11: Eliminate Winner after a completed spin deletes exactly the entry at
\* lastIdx from labels and from fulls, keeps the others in order, and leaves
\* the rotation and the spinning flag (and the pending frames) as they are; a
\* click on it when there is no current winner (lastIdx null, or the buttons
\* disabled) changes nothing.
C11_EliminateWinnerRemovesOne ==
    [][ /\ (Rm1 /\ lastIdx # null) =>
              /\ lastIdx \in 0..(Len(labels) - 1)
              /\ labels' = Without(labels, lastIdx)
              /\ fulls' = Without(fulls, lastIdx)
              /\ Len(labels') = Len(labels) - 1
              /\ UNCHANGED <<rotation, spinning, rafQueue>>
        /\ (ElimClickDropped \/ (Rm1 /\ lastIdx = null)) => UNCHANGED progVars ]_vars

\* Eliminate Winner has removed the middle entry of three: the two that differ
\* in label and record are left, in their order
C11_Witness ==
    /\ lastOp = "rm1"
    /\ INIT.fulls = <<"Ann - a@x - 1", "Ann - b@x - 2", "Bob - c@x - 3">>
    /\ fulls = <<"Ann - a@x - 1", "Bob - c@x - 3">>
    /\ labels = <<"Ann", "Bob">>
    /\ lastIdx = null
    /\ elimsDisabled

\* C12: whenever the eliminate buttons are enabled no spin is in progress and
\* lastIdx is non-null and a valid index of the current entry list; and labels
\* and fulls always have the same length.
C12_ElimsEnabledImpliesWinner ==
    /\ Len(labels) = Len(fulls)
    /\ ~elimsDisabled =>
          /\ ~spinning
          /\ rafQueue = <<>>
          /\ lastIdx # null
          /\ lastIdx \in 0..(Len(labels) - 1)

\* the buttons are enabled after a second spin, run on a list an elimination
\* had shortened, completed with its last entry as the winner
C12_Witness ==
    /\ ~elimsDisabled
    /\ Len(INIT.labels) = 3
    /\ Len(labels) = 2
    /\ lastIdx = 1
    /\ winnersLog # <<>>

=============================================================================
